---- MODULE Spec2Model ----
(***************************************************************************)
(* A model of MapboxService (src/src/service/index.ts): one gateway object *)
(* over a shared HTTP transport (axios) on which the constructor installs  *)
(* an axios-retry policy, and four request methods.                        *)
(*                                                                         *)
(* One method call is observed at a time, the call made after a            *)
(* construction; the state of a call is dropped when the next              *)
(* construction starts.  A call issues one request                         *)
(* (getOptimizedRoute, getElevation, getDistanceMatrix) or N concurrent    *)
(* requests (batchGeocode).  The transport answers every attempt of every  *)
(* request nondeterministically; a retried request waits for its backoff   *)
(* timer.  Everything that runs in promise continuations between two       *)
(* transport events (the retry interceptor, the body of the method after   *)
(* its await, its catch block) is one step, as microtasks run to           *)
(* completion before the next transport or timer event is delivered.       *)
(***************************************************************************)
EXTENDS Integers, Sequences, FiniteSets, TLC

(***************************************************************************)
(* Bounds of the model.                                                    *)
(***************************************************************************)
MaxPoints == 3
MaxLocs == 2
MaxCtor == 2
\* longest locations list where the transport may also abort a request
MaxPolicyLocs == 1

(***************************************************************************)
(* Program constants.                                                      *)
(***************************************************************************)
Retries == 3

(***************************************************************************)
(* JavaScript values.                                                      *)
(***************************************************************************)
Undefined == [t |-> "undefined"]
Num(n) == [t |-> "number", n |-> n]
\* an argument is an array of items or some other value; Array.isArray tells which
Array(items) == [t |-> "array", items |-> items]
NotArray == [t |-> "object", items |-> <<>>]
IsArray(v) == v.t = "array"

SeqUpTo(S, n) == UNION {[1..k -> S] : k \in 0..n}

(***************************************************************************)
(* Inputs the caller may pass.                                             *)
(***************************************************************************)
Lons == {1, 2}
Lats == {1, 2}
Coords == {<<1, 2>>, <<2, 1>>, <<-73, 40>>}
Locations == {"Paris", "Nonexistent__Place_X"}
TokenInputs == {Undefined, [t |-> "string", s |-> ""], [t |-> "string", s |-> "pk.token"]}
PointInputs == {NotArray} \cup {Array(a) : a \in SeqUpTo(Coords, MaxPoints)}
PolicyLocationInputs ==
  {NotArray} \cup {Array(a) : a \in SeqUpTo(Locations, MaxPolicyLocs)}
LocationInputs == {NotArray} \cup {Array(a) : a \in SeqUpTo(Locations, MaxLocs)}

\* !accessToken
Falsy(tok) == tok = Undefined \/ tok.s = ""

(***************************************************************************)
(* Array.prototype.join over token sequences: the elements separated by    *)
(* sep, nothing before the first or after the last.                        *)
(***************************************************************************)
RECURSIVE Join(_, _)
Join(parts, sep) ==
  IF Len(parts) = 0 THEN <<>>
  ELSE IF Len(parts) = 1 THEN parts[1]
  ELSE parts[1] \o <<sep>> \o Join(Tail(parts), sep)

\* a join that puts latitude first
CoordJoinLatLon(coord) == <<ToString(coord[2]), ",", ToString(coord[1])>>

\* coord.join(',') : each number printed in decimal, separated by ","
CoordJoin(coord) == Join([k \in 1..Len(coord) |-> <<ToString(coord[k])>>], ",")

\* waypoints.map((coord) => coord.join(',')).join(';')
Coordinates(points) == Join([k \in 1..Len(points) |-> CoordJoin(points[k])], ";")

(***************************************************************************)
(* What the transport can answer to one attempt of a request.              *)
(* A failure is the error axios rejects with: the response status when a   *)
(* response was received (status = {} when none was), the error code and   *)
(* the message.                                                            *)
(***************************************************************************)
Statuses == {400, 429, 500}
NoError == [name |-> "", status |-> {}, code |-> "", message |-> ""]
StatusError(s) ==
  [name |-> "AxiosError", status |-> {s},
   code |-> IF s >= 500 THEN "ERR_BAD_RESPONSE" ELSE "ERR_BAD_REQUEST",
   message |-> "Request failed with status code " \o ToString(s)]
NetworkError ==
  [name |-> "AxiosError", status |-> {}, code |-> "ECONNRESET", message |-> "read ECONNRESET"]
TypeError ==
  [name |-> "TypeError", status |-> {}, code |-> "",
   message |-> "Cannot read properties of undefined"]
Failures == {StatusError(s) : s \in Statuses} \cup {NetworkError}
\* a request that axios aborted or timed out: no response, code ECONNABORTED
AbortedError ==
  [name |-> "AxiosError", status |-> {}, code |-> "ECONNABORTED",
   message |-> "Request aborted"]
AllFailures == Failures \cup {AbortedError}

(***************************************************************************)
(* Bodies of 2xx responses.  A body either carries a features list or does *)
(* not (hasFeatures = FALSE: response.data.features is undefined).  An     *)
(* elevation feature carries properties.ele or lacks it (ele = {}).        *)
(***************************************************************************)
ElevationValues == {0, 120}
Body(fs) == [hasFeatures |-> TRUE, features |-> fs]
NoFeaturesBody == [hasFeatures |-> FALSE, features |-> <<>>]
ElevationFeature(e) == [t |-> "feature", ele |-> e]
GeocodeFeature(q) == [t |-> "feature", place_name |-> q]
ElevationBodies ==
  {NoFeaturesBody, Body(<<>>), Body(<<ElevationFeature({})>>)}
    \cup {Body(<<ElevationFeature({e})>>) : e \in ElevationValues}
GeocodeBodies(q) == {NoFeaturesBody, Body(<<>>), Body(<<GeocodeFeature(q)>>)}
RouteBody == [t |-> "OptimizedRouteResponse", code |-> "Ok"]
MatrixBody == [t |-> "DistanceMatrixResponse", code |-> "Ok"]

(***************************************************************************)
(* The retry policy the constructor installs (axios-retry).                *)
(***************************************************************************)
\* axiosRetry.isNetworkError: no response, an error code, not an abort
IsNetworkError(error) ==
  error.status = {} /\ error.code # "" /\ error.code # "ECONNABORTED"

\* a retryable-error test that does not exclude aborted requests
IsRetryableErrorWithAborted(error) ==
  \/ error.status = {}
  \/ \E s \in error.status : s >= 500 /\ s <= 599

\* axiosRetry.isRetryableError: not an abort, and no response or a 5xx one
IsRetryableError(error) ==
  /\ error.code # "ECONNABORTED"
  /\ \/ error.status = {}
     \/ \E s \in error.status : s >= 500 /\ s <= 599

\* axiosRetry.isNetworkOrIdempotentRequestError; every request here is a GET
IsNetworkOrIdempotentRequestError(error) ==
  error.name = "AxiosError" /\ (IsNetworkError(error) \/ IsRetryableError(error))

\* a retry condition that retries every failed request
RetryConditionAnyFailure(error) == error.name = "AxiosError"

\* a retry condition that forgets the rate-limit status
RetryConditionWithout429(error) == IsNetworkOrIdempotentRequestError(error)

\* retryCondition: (error) => isNetworkOrIdempotentRequestError(error) || status === 429
RetryCondition(error) ==
  IsNetworkOrIdempotentRequestError(error) \/ error.status = {429}

\* a retry budget that is one too large
ShouldRetryOnceMore(retryCount, error) ==
  retryCount <= Retries /\ RetryCondition(error)

\* axios-retry's shouldRetry: retries left and the condition holds
ShouldRetry(retryCount, error) ==
  retryCount < Retries /\ RetryCondition(error)

\* interceptors that each grant a retry budget of their own
InterceptOwnBudget(n, retryCount, error) ==
  retryCount < n * Retries /\ RetryCondition(error)

(***************************************************************************)
(* Every construction calls axiosRetry(axios, ...) on the one shared axios *)
(* instance, so after n constructions a failed attempt passes through n    *)
(* response interceptors with the same options, in the order they were     *)
(* installed.  Each reads the retry state that the request carries in its  *)
(* own config, and the first one that wants a retry schedules it; a later  *)
(* one runs only on a failure the earlier ones gave up on, with that same  *)
(* state.  Intercept tells whether the chain schedules a retry.            *)
(***************************************************************************)
RECURSIVE Intercept(_, _, _)
Intercept(n, retryCount, error) ==
  IF n = 0
  THEN FALSE
  ELSE ShouldRetry(retryCount, error) \/ Intercept(n - 1, retryCount, error)

(***************************************************************************)
(* Log events.  arg is what the message interpolates; meta is the          *)
(* structured metadata: the key and value of the input field and           *)
(* status (error.response?.status, {} when undefined).                     *)
(***************************************************************************)
NoMeta == [key |-> "", val |-> <<>>, status |-> {}]
Event(level, msg, arg, meta) == [level |-> level, msg |-> msg, arg |-> arg, meta |-> meta]

(***************************************************************************)
(* State.                                                                  *)
(*  accessToken  this.accessToken of the gateway (Undefined before one is  *)
(*               constructed)                                              *)
(*  installs     how many times axiosRetry(axios, ...) has run             *)
(*  op, input    the method and argument of the observed call              *)
(*  pc           "idle", "pending" (awaiting), "returned" or "thrown"      *)
(*  returned     the value the call returned                               *)
(*  thrown       the message of the Error the last operation threw         *)
(*  req          the requests the call issued, in issue order              *)
(*  log          the logger's events of the last operation, in order,      *)
(*               without the retry warnings                                *)
(*  retryLog     the attempt numbers of the retry warnings, per request    *)
(***************************************************************************)
VARIABLES accessToken, installs, op, input, pc, returned, thrown, req, log, retryLog

vars == <<accessToken, installs, op, input, pc, returned, thrown, req, log, retryLog>>

Init ==
  /\ accessToken = Undefined
  /\ installs = 0
  /\ op = "none"
  /\ input = Undefined
  /\ pc = "idle"
  /\ returned = Undefined
  /\ thrown = ""
  /\ req = <<>>
  /\ log = <<>>
  /\ retryLog = <<>>

\* no request of the observed call is in flight or waiting for its retry timer
Quiet == \A i \in DOMAIN req : req[i].st \in {"resolved", "rejected"}

(***************************************************************************)
(* new MapboxService(token)                                                *)
(***************************************************************************)
InstallRetry(n) == n + 1

\* a constructor that configures the transport before it checks the token
ConstructInstallsFirst(token) ==
  /\ installs < MaxCtor
  /\ pc # "pending"
  /\ Quiet
  /\ op' = "constructor"
  /\ input' = token
  /\ req' = <<>>
  /\ retryLog' = <<>>
  /\ returned' = Undefined
  /\ installs' = InstallRetry(installs)
  /\ IF Falsy(token)
     THEN /\ log' = <<Event("error", "Mapbox access token not provided", <<>>, NoMeta)>>
          /\ thrown' = "Mapbox access token is required"
          /\ pc' = "thrown"
          /\ UNCHANGED accessToken
     ELSE /\ accessToken' = token
          /\ log' = <<>>
          /\ thrown' = ""
          /\ pc' = "returned"

Construct(token) ==
  /\ installs < MaxCtor
  /\ pc # "pending"
  /\ Quiet
  /\ op' = "constructor"
  /\ input' = token
  /\ req' = <<>>
  /\ retryLog' = <<>>
  /\ returned' = Undefined
  /\ IF Falsy(token)
     THEN /\ log' = <<Event("error", "Mapbox access token not provided", <<>>, NoMeta)>>
          /\ thrown' = "Mapbox access token is required"
          /\ pc' = "thrown"
          /\ UNCHANGED <<accessToken, installs>>
     ELSE /\ accessToken' = token
          /\ installs' = InstallRetry(installs)
          /\ log' = <<>>
          /\ thrown' = ""
          /\ pc' = "returned"

(***************************************************************************)
(* One outbound GET as axios.get(url, {params}) issues it: the axios-retry *)
(* state of its config (retryCount) starts at 0.  attempts counts the      *)
(* times the request has been put on the wire, data is the body of the    *)
(* 2xx response once there is one, val what the batchGeocode callback of   *)
(* the request returned, err what the request was rejected with.           *)
(***************************************************************************)
MAPBOX_BASE_URL == "https://api.mapbox.com"

Get(endpoint, path, params) ==
  [st |-> "inflight", base |-> MAPBOX_BASE_URL, endpoint |-> endpoint, path |-> path,
   params |-> params, attempts |-> 1, retryCount |-> 0,
   data |-> NoFeaturesBody, val |-> Undefined, err |-> NoError]

\* a method may be called on a constructed gateway; one call is observed after
\* each construction
CanCall == accessToken # Undefined /\ op = "constructor"

\* the method threw before its first await
Reject(name, arg, message) ==
  /\ op' = name
  /\ input' = arg
  /\ pc' = "thrown"
  /\ thrown' = message
  /\ returned' = Undefined
  /\ req' = <<>>
  /\ retryLog' = <<>>
  /\ log' = <<>>
  /\ UNCHANGED <<accessToken, installs>>

\* the method issued its requests and is suspended at its await
Await(name, arg, requests) ==
  /\ op' = name
  /\ input' = arg
  /\ pc' = "pending"
  /\ thrown' = ""
  /\ returned' = Undefined
  /\ req' = requests
  /\ retryLog' = [i \in DOMAIN requests |-> <<>>]
  /\ log' = <<>>
  /\ UNCHANGED <<accessToken, installs>>

GetOptimizedRoute(waypoints) ==
  /\ CanCall
  /\ IF ~IsArray(waypoints) \/ Len(waypoints.items) < 2
     THEN Reject("getOptimizedRoute", waypoints,
                 "Invalid waypoints. Minimum 2 coordinates required.")
     ELSE Await("getOptimizedRoute", waypoints,
                <<Get("/optimized-trips/v1/mapbox/driving/", Coordinates(waypoints.items),
                      <<<<"access_token", accessToken.s>>, <<"geometries", "geojson">>>>)>>)

GetElevation(longitude, latitude) ==
  /\ CanCall
  /\ Await("getElevation", Array(<<longitude, latitude>>),
           <<Get("/v4/mapbox.mapbox-terrain-v2/tilequery/",
                 <<ToString(longitude), ",", ToString(latitude), ".json">>,
                 <<<<"access_token", accessToken.s>>, <<"layers", "contour">>,
                   <<"limit", "1">>>>)>>)

\* batchGeocode without the emptiness check
BatchGeocodeUnchecked(locations) ==
  /\ CanCall
  /\ IF ~IsArray(locations)
     THEN Reject("batchGeocode", locations, "Invalid locations. Non-empty array required.")
     ELSE Await("batchGeocode", locations,
                [i \in 1..Len(locations.items) |->
                   Get("/geocoding/v5/mapbox.places-permanent", <<>>,
                       <<<<"access_token", accessToken.s>>, <<"q", locations.items[i]>>,
                         <<"limit", "1">>>>)])

BatchGeocode(locations) ==
  /\ CanCall
  /\ IF ~IsArray(locations) \/ Len(locations.items) = 0
     THEN Reject("batchGeocode", locations, "Invalid locations. Non-empty array required.")
     ELSE Await("batchGeocode", locations,
                [i \in 1..Len(locations.items) |->
                   Get("/geocoding/v5/mapbox.places-permanent", <<>>,
                       <<<<"access_token", accessToken.s>>, <<"q", locations.items[i]>>,
                         <<"limit", "1">>>>)])

\* getDistanceMatrix accepting a single point
GetDistanceMatrixMin1(points) ==
  /\ CanCall
  /\ IF ~IsArray(points) \/ Len(points.items) < 1
     THEN Reject("getDistanceMatrix", points,
                 "Invalid points. Minimum 2 coordinates required.")
     ELSE Await("getDistanceMatrix", points,
                <<Get("/distances/v1/mapbox/driving/", Coordinates(points.items),
                      <<<<"access_token", accessToken.s>>,
                        <<"annotations", "duration,distance">>>>)>>)

GetDistanceMatrix(points) ==
  /\ CanCall
  /\ IF ~IsArray(points) \/ Len(points.items) < 2
     THEN Reject("getDistanceMatrix", points,
                 "Invalid points. Minimum 2 coordinates required.")
     ELSE Await("getDistanceMatrix", points,
                <<Get("/distances/v1/mapbox/driving/", Coordinates(points.items),
                      <<<<"access_token", accessToken.s>>,
                        <<"annotations", "duration,distance">>>>)>>)

(***************************************************************************)
(* How a suspended method settles.                                         *)
(***************************************************************************)
Return(value, events) ==
  /\ pc' = "returned"
  /\ returned' = value
  /\ log' = log \o events
  /\ UNCHANGED thrown

\* a catch block that passes the upstream message on to the caller
CatchLeaky(error, text, key, val, message) ==
  /\ pc' = "thrown"
  /\ thrown' = message \o ": " \o error.message
  /\ log' = Append(log, Event("error", text, <<error.message>>,
                              [key |-> key, val |-> val, status |-> error.status]))
  /\ UNCHANGED returned

\* catch (error) { logger.error(text: error.message, {key: val, status}); throw new Error(message) }
Catch(error, text, key, val, message) ==
  /\ pc' = "thrown"
  /\ thrown' = message
  /\ log' = Append(log, Event("error", text, <<error.message>>,
                              [key |-> key, val |-> val, status |-> error.status]))
  /\ UNCHANGED returned

RouteCatch(error) ==
  Catch(error, "Route optimization error: ", "waypoints", input.items,
        "Failed to optimize route")

ElevationCatch(error) ==
  Catch(error, "Elevation fetch error: ", "coordinates",
        <<ToString(input.items[1]), ", ", ToString(input.items[2])>>,
        "Failed to fetch elevation")

\* a catch block that swallows the failure of one location
GeocodeCatchSwallow(error) == UNCHANGED <<pc, returned, thrown, log>>

GeocodeCatch(error) ==
  Catch(error, "Batch geocoding error: ", "locationCount", Len(input.items),
        "Failed to geocode locations")

MatrixCatch(error) ==
  Catch(error, "Distance matrix error: ", "pointCount", Len(input.items),
        "Failed to fetch distance matrix")

\* the catch block of the method that is suspended
MethodCatch(error) ==
  CASE op = "getOptimizedRoute" -> RouteCatch(error)
    [] op = "getElevation" -> ElevationCatch(error)
    [] op = "batchGeocode" -> GeocodeCatch(error)
    [] op = "getDistanceMatrix" -> MatrixCatch(error)

\* getOptimizedRoute after its await resolved with response
RouteThen(data) ==
  Return(data, <<Event("info", "Route optimized for  waypoints",
                       <<ToString(Len(input.items))>>, NoMeta)>>)

\* getDistanceMatrix after its await resolved with response
MatrixThen(data) ==
  Return(data, <<Event("info", "Distance matrix calculated for  points",
                       <<ToString(Len(input.items))>>, NoMeta)>>)

\* features[0].properties.ele : the number, or undefined when the property is absent
Ele(feature) ==
  IF feature.ele = {} THEN Undefined ELSE Num(CHOOSE e \in feature.ele : TRUE)

\* getElevation treating an empty features list as a failure
ElevationThenStrict(data) ==
  IF ~data.hasFeatures \/ Len(data.features) = 0
  THEN ElevationCatch(TypeError)
  ELSE Return(Ele(data.features[1]), <<>>)

\* getElevation reading the features outside its try block
ElevationThenUncaught(data) ==
  IF ~data.hasFeatures
  THEN /\ pc' = "thrown"
       /\ thrown' = TypeError.message
       /\ UNCHANGED <<returned, log>>
  ELSE IF Len(data.features) > 0
       THEN Return(Ele(data.features[1]), <<>>)
       ELSE Return(Num(0),
                   <<Event("warn", "No elevation data for coordinates: ",
                           <<ToString(input.items[1]), ", ", ToString(input.items[2])>>,
                           NoMeta)>>)

\* getElevation after its await resolved with response
ElevationThen(data) ==
  IF ~data.hasFeatures
  THEN ElevationCatch(TypeError)
  ELSE IF Len(data.features) > 0
       THEN Return(Ele(data.features[1]), <<>>)
       ELSE Return(Num(0),
                   <<Event("warn", "No elevation data for coordinates: ",
                           <<ToString(input.items[1]), ", ", ToString(input.items[2])>>,
                           NoMeta)>>)

\* the answers the transport can give with a 2xx status to request i
Bodies(i) ==
  CASE op = "getOptimizedRoute" -> {RouteBody}
    [] op = "getElevation" -> ElevationBodies
    [] op = "batchGeocode" -> GeocodeBodies(input.items[i])
    [] op = "getDistanceMatrix" -> {MatrixBody}

\* a join that resolves with the first promise that resolves
FirstResolved(rs) == \E j \in DOMAIN rs : rs[j].st = "resolved"

\* Promise.all(geocodePromises) with the promises as they are in rs
AllResolved(rs) == \A j \in DOMAIN rs : rs[j].st = "resolved"
\* results that drop the locations without a match
ResultsCompact(rs) == SelectSeq([j \in DOMAIN rs |-> rs[j].val], LAMBDA v : v # Undefined)

Results(rs) == [j \in DOMAIN rs |-> rs[j].val]

\* batchGeocode: the map callback of location i after its await resolved, then
\* the method itself if that settles Promise.all
GeocodeThen(i, data) ==
  IF ~data.hasFeatures
  THEN /\ req' = [req EXCEPT ![i].st = "rejected", ![i].data = data, ![i].err = TypeError]
       /\ IF pc = "pending"
          THEN GeocodeCatch(TypeError)
          ELSE UNCHANGED <<pc, returned, thrown, log>>
  ELSE LET v == IF Len(data.features) > 0 THEN data.features[1] ELSE Undefined
           rs == [req EXCEPT ![i].st = "resolved", ![i].data = data, ![i].val = v]
       IN /\ req' = rs
          /\ IF pc = "pending" /\ AllResolved(rs)
             THEN Return(Results(rs),
                         <<Event("info", "Geocoded  locations",
                                 <<ToString(Len(Results(rs)))>>, NoMeta)>>)
             ELSE UNCHANGED <<pc, returned, thrown, log>>

(***************************************************************************)
(* The transport answers the attempt of request i that is on the wire      *)
(* with a 2xx response carrying data.                                      *)
(***************************************************************************)
TransportSuccess(i, data) ==
  /\ req[i].st = "inflight"
  /\ data \in Bodies(i)
  /\ IF op = "batchGeocode"
     THEN GeocodeThen(i, data)
     ELSE /\ req' = [req EXCEPT ![i].st = "resolved", ![i].data = data]
          /\ CASE op = "getOptimizedRoute" -> RouteThen(data)
               [] op = "getElevation" -> ElevationThen(data)
               [] op = "getDistanceMatrix" -> MatrixThen(data)
  /\ UNCHANGED <<accessToken, installs, op, input, retryLog>>

(***************************************************************************)
(* The transport fails the attempt of request i that is on the wire with   *)
(* error.  The axios-retry response interceptor either schedules a retry (retryCount   *)
(* is incremented, onRetry logs the warning, the request waits for its     *)
(* backoff timer) or rejects the request with the error, which the method  *)
(* catches unless it has settled already.                                  *)
(***************************************************************************)
\* onRetry: logger.warn(`Retry attempt ${retryCount} for Mapbox API call`)
OnRetry(warnings, retryCount) == Append(warnings, retryCount)

\* a retry count kept in one place for all the requests of the call
TransportFailureSharedCount(i, error) ==
  /\ req[i].st = "inflight"
  /\ IF Intercept(installs, req[i].retryCount, error)
     THEN /\ req' = [j \in DOMAIN req |->
                      IF j = i
                      THEN [req[j] EXCEPT !.st = "backoff", !.retryCount = @ + 1]
                      ELSE [req[j] EXCEPT !.retryCount = @ + 1]]
          /\ retryLog' = [retryLog EXCEPT ![i] = OnRetry(@, req[i].retryCount + 1)]
          /\ UNCHANGED <<pc, returned, thrown, log>>
     ELSE /\ req' = [req EXCEPT ![i].st = "rejected", ![i].err = error]
          /\ UNCHANGED retryLog
          /\ IF pc = "pending"
             THEN MethodCatch(error)
             ELSE UNCHANGED <<pc, returned, thrown, log>>
  /\ UNCHANGED <<accessToken, installs, op, input>>

TransportFailure(i, error) ==
  /\ req[i].st = "inflight"
  /\ IF Intercept(installs, req[i].retryCount, error)
     THEN /\ req' = [req EXCEPT ![i].st = "backoff", ![i].retryCount = @ + 1]
          /\ retryLog' = [retryLog EXCEPT ![i] = OnRetry(@, req[i].retryCount + 1)]
          /\ UNCHANGED <<pc, returned, thrown, log>>
     ELSE /\ req' = [req EXCEPT ![i].st = "rejected", ![i].err = error]
          /\ UNCHANGED retryLog
          /\ IF pc = "pending"
             THEN MethodCatch(error)
             ELSE UNCHANGED <<pc, returned, thrown, log>>
  /\ UNCHANGED <<accessToken, installs, op, input>>

\* a backoff timer that never issues the request again
RetryTimerLost(i) ==
  /\ req[i].st = "backoff"
  /\ req' = [req EXCEPT ![i].st = "lost"]
  /\ UNCHANGED <<accessToken, installs, op, input, pc, returned, thrown, log, retryLog>>

(***************************************************************************)
(* The backoff timer of request i fires: axios-retry issues it again.      *)
(***************************************************************************)
RetryTimer(i) ==
  /\ req[i].st = "backoff"
  /\ req' = [req EXCEPT ![i].st = "inflight", ![i].attempts = @ + 1]
  /\ UNCHANGED <<accessToken, installs, op, input, pc, returned, thrown, log, retryLog>>

Next ==
  \/ \E token \in TokenInputs : Construct(token)
  \/ \E waypoints \in PointInputs : GetOptimizedRoute(waypoints)
  \/ \E longitude \in Lons, latitude \in Lats : GetElevation(longitude, latitude)
  \/ \E locations \in LocationInputs : BatchGeocode(locations)
  \/ \E points \in PointInputs : GetDistanceMatrix(points)
  \/ \E i \in DOMAIN req : \E data \in Bodies(i) : TransportSuccess(i, data)
  \/ \E i \in DOMAIN req : \E error \in Failures : TransportFailure(i, error)
  \/ \E i \in DOMAIN req : RetryTimer(i)

Spec == Init /\ [][Next]_vars

(***************************************************************************)
(* The gateway over a transport that answers every attempt on the wire in  *)
(* the end, with an event loop that fires every scheduled retry timer in   *)
(* the end.                                                                *)
(***************************************************************************)
Answer(i) ==
  /\ i \in DOMAIN req
  /\ \/ \E data \in Bodies(i) : TransportSuccess(i, data)
     \/ \E error \in Failures : TransportFailure(i, error)

Fire(i) == i \in DOMAIN req /\ RetryTimer(i)

SpecFair ==
  /\ Init
  /\ [][Next]_vars
  /\ \A i \in 1..MaxLocs : WF_vars(Answer(i)) /\ WF_vars(Fire(i))

(***************************************************************************)
(* The same gateway over a transport that answers the first two attempts   *)
(* of every request with status 429 and the third with a 2xx response.     *)
(***************************************************************************)
NextRateLimited ==
  \/ \E token \in TokenInputs : Construct(token)
  \/ \E waypoints \in PointInputs : GetOptimizedRoute(waypoints)
  \/ \E longitude \in Lons, latitude \in Lats : GetElevation(longitude, latitude)
  \/ \E locations \in LocationInputs : BatchGeocode(locations)
  \/ \E points \in PointInputs : GetDistanceMatrix(points)
  \/ \E i \in DOMAIN req : req[i].attempts <= 2 /\ TransportFailure(i, StatusError(429))
  \/ \E i \in DOMAIN req : \E data \in Bodies(i) :
        req[i].attempts = 3 /\ TransportSuccess(i, data)
  \/ \E i \in DOMAIN req : RetryTimer(i)

SpecRateLimited == Init /\ [][NextRateLimited]_vars

(***************************************************************************)
(* The same gateway over a transport that may also abort an attempt        *)
(* (ECONNABORTED), with batches of at most MaxPolicyLocs locations.        *)
(***************************************************************************)
NextRetryPolicy ==
  \/ \E token \in TokenInputs : Construct(token)
  \/ \E waypoints \in PointInputs : GetOptimizedRoute(waypoints)
  \/ \E longitude \in Lons, latitude \in Lats : GetElevation(longitude, latitude)
  \/ \E locations \in PolicyLocationInputs : BatchGeocode(locations)
  \/ \E points \in PointInputs : GetDistanceMatrix(points)
  \/ \E i \in DOMAIN req : \E data \in Bodies(i) : TransportSuccess(i, data)
  \/ \E i \in DOMAIN req : \E error \in AllFailures : TransportFailure(i, error)
  \/ \E i \in DOMAIN req : RetryTimer(i)

SpecRetryPolicy == Init /\ [][NextRetryPolicy]_vars

(***************************************************************************)
(* Vocabulary of the properties.                                           *)
(***************************************************************************)
\* the message of the validation error of a method
ValidationMessage(o) ==
  CASE o = "getOptimizedRoute" -> "Invalid waypoints. Minimum 2 coordinates required."
    [] o = "getDistanceMatrix" -> "Invalid points. Minimum 2 coordinates required."
    [] o = "batchGeocode" -> "Invalid locations. Non-empty array required."
    [] OTHER -> "no validation"

\* the message of the operation-specific error of a method
FailureMessage(o) ==
  CASE o = "getOptimizedRoute" -> "Failed to optimize route"
    [] o = "getElevation" -> "Failed to fetch elevation"
    [] o = "batchGeocode" -> "Failed to geocode locations"
    [] o = "getDistanceMatrix" -> "Failed to fetch distance matrix"
    [] OTHER -> "no failure"

Methods == {"getOptimizedRoute", "getElevation", "batchGeocode", "getDistanceMatrix"}
EventsAt(level) == SelectSeq(log, LAMBDA e : e.level = level)

(***************************************************************************)
(* C1: whenever the observed call is getOptimizedRoute or                  *)
(* getDistanceMatrix and its argument is not an array or has fewer than 2  *)
(* coordinates, the call has thrown the validation error of that method    *)
(* and has issued no request, in the state it fails in and in every later  *)
(* state of that call.                                                     *)
(***************************************************************************)
ShortPointsRejected ==
  (op \in {"getOptimizedRoute", "getDistanceMatrix"}
     /\ (~IsArray(input) \/ Len(input.items) < 2))
  => /\ pc = "thrown"
     /\ thrown = ValidationMessage(op)
     /\ req = <<>>
     /\ retryLog = <<>>

ShortPointsRejectedWitness ==
  /\ op = "getDistanceMatrix"
  /\ IsArray(input)
  /\ Len(input.items) = 1
  /\ pc = "thrown"
  /\ req = <<>>

(***************************************************************************)
(* C2: whenever the observed call is batchGeocode with an empty array, the *)
(* call has thrown the validation error and has issued no request.         *)
(***************************************************************************)
EmptyLocationsRejected ==
  (op = "batchGeocode" /\ IsArray(input) /\ Len(input.items) = 0)
  => /\ pc = "thrown"
     /\ thrown = ValidationMessage(op)
     /\ req = <<>>
     /\ retryLog = <<>>

EmptyLocationsRejectedWitness ==
  /\ op = "batchGeocode"
  /\ input = Array(<<>>)
  /\ pc = "thrown"
  /\ req = <<>>

(***************************************************************************)
(* C3: over the transport that answers 429, 429, 2xx (SpecRateLimited),    *)
(* every request that has settled was attempted three times and logged     *)
(* exactly the retry warnings numbered 1 and 2; the call never throws      *)
(* while every response body received has the shape the method reads (a    *)
(* features list for getElevation and batchGeocode), and it has returned   *)
(* once all its requests are answered with such bodies.                    *)
(***************************************************************************)
ShapeOk(i) == req[i].data \in (Bodies(i) \ {NoFeaturesBody})

RateLimitedTwiceSucceeds ==
  op \in Methods =>
    /\ \A i \in DOMAIN req :
         /\ req[i].st \in {"resolved", "rejected"}
              => req[i].attempts = 3 /\ retryLog[i] = <<1, 2>>
         /\ Len(retryLog[i]) <= 2
    /\ (\A i \in DOMAIN req : req[i].st \in {"resolved", "rejected"} => ShapeOk(i))
         => pc # "thrown" \/ req = <<>>
    /\ (req # <<>> /\ \A i \in DOMAIN req : req[i].st = "resolved" /\ ShapeOk(i))
         => pc = "returned" /\ EventsAt("error") = <<>>

RateLimitedTwiceSucceedsWitness ==
  /\ op = "getOptimizedRoute"
  /\ pc = "returned"
  /\ returned = RouteBody
  /\ req[1].attempts = 3
  /\ retryLog = <<<<1, 2>>>>

(***************************************************************************)
(* C4: a step in which the transport answers the first attempt of a        *)
(* request with status 400 rejects the request at once: it has been        *)
(* attempted once, no retry warning is logged for it, and the call has     *)
(* thrown the operation-specific error of its method.  A rejected request  *)
(* is never attempted again.                                               *)
(***************************************************************************)
BadRequestNotRetried ==
  [][\A i \in DOMAIN req :
       /\ (req[i].attempts = 1 /\ TransportFailure(i, StatusError(400)))
            => /\ req'[i].st = "rejected"
               /\ req'[i].attempts = 1
               /\ retryLog'[i] = <<>>
               /\ pc' = "thrown"
               /\ thrown' = FailureMessage(op)
       /\ (req[i].st = "rejected" /\ op' \in Methods)
            => req'[i] = req[i] /\ retryLog'[i] = retryLog[i]]_vars

BadRequestNotRetriedWitness ==
  /\ op = "getOptimizedRoute"
  /\ req # <<>>
  /\ req[1].st = "rejected"
  /\ req[1].err = StatusError(400)
  /\ req[1].attempts = 1
  /\ retryLog[1] = <<>>
  /\ pc = "thrown"
  /\ thrown = "Failed to optimize route"

(***************************************************************************)
(* C5: no request is attempted more than Retries + 1 = 4 times; a method   *)
(* issues exactly the requests of its call (one, or one per location) and  *)
(* its catch block runs at most once; when a request is rejected after 4   *)
(* attempts with a retryable failure, the call has thrown its              *)
(* operation-specific error and exactly one error event is logged, which   *)
(* for a single-request method carries the status of that last failure.    *)
(***************************************************************************)
Issued == IF op = "batchGeocode" THEN Len(input.items) ELSE 1

AttemptsCapped ==
  op \in Methods =>
    /\ \A i \in DOMAIN req :
         /\ req[i].attempts <= Retries + 1
         /\ Len(retryLog[i]) <= Retries
         /\ (req[i].st = "rejected" /\ req[i].attempts = Retries + 1
               /\ RetryCondition(req[i].err))
            => /\ pc = "thrown"
               /\ thrown = FailureMessage(op)
               /\ Len(EventsAt("error")) = 1
               /\ Len(req) = 1 => EventsAt("error")[1].meta.status = req[i].err.status
    /\ Len(EventsAt("error")) <= 1
    /\ req # <<>> => Len(req) = Issued

AttemptsCappedWitness ==
  /\ op = "getElevation"
  /\ req[1].st = "rejected"
  /\ req[1].attempts = 4
  /\ req[1].err = StatusError(429)
  /\ retryLog[1] = <<1, 2, 3>>
  /\ pc = "thrown"

(***************************************************************************)
(* C6: in every state of a batchGeocode call in which one of its requests  *)
(* has been rejected, the call has thrown "Failed to geocode locations"    *)
(* and has not returned, whatever the state of its other requests.         *)
(***************************************************************************)
BatchFailsAsAWhole ==
  (op = "batchGeocode" /\ \E i \in DOMAIN req : req[i].st = "rejected")
  => /\ pc = "thrown"
     /\ thrown = "Failed to geocode locations"
     /\ EventsAt("info") = <<>>

BatchFailsAsAWholeWitness ==
  /\ op = "batchGeocode"
  /\ Len(req) = 2
  /\ req[1].st = "resolved"
  /\ req[1].val = GeocodeFeature(input.items[1])
  /\ req[2].st = "rejected"
  /\ req[2].err = NetworkError
  /\ req[2].attempts = 4
  /\ pc = "thrown"

(***************************************************************************)
(* C7: when every request of a batchGeocode call is resolved, the call has *)
(* returned an array with one entry per input location; request i carries  *)
(* location i as its query, and entry i is the first feature of the        *)
(* response to request i, or undefined when that response has no features. *)
(***************************************************************************)
FirstFeature(data) == IF Len(data.features) > 0 THEN data.features[1] ELSE Undefined

GeocodeResultsAligned ==
  (op = "batchGeocode" /\ req # <<>> /\ \A i \in DOMAIN req : req[i].st = "resolved")
  => /\ pc = "returned"
     /\ Len(returned) = Len(input.items)
     /\ Len(req) = Len(input.items)
     /\ \A i \in 1..Len(input.items) :
          /\ req[i].params[2] = <<"q", input.items[i]>>
          /\ returned[i] = FirstFeature(req[i].data)
          /\ returned[i] # Undefined => returned[i].place_name = input.items[i]

GeocodeResultsAlignedWitness ==
  /\ op = "batchGeocode"
  /\ pc = "returned"
  /\ input.items = <<"Nonexistent__Place_X", "Paris">>
  /\ returned = <<Undefined, GeocodeFeature("Paris")>>
  /\ req[1].attempts > req[2].attempts

(***************************************************************************)
(* C8: when the response to a getElevation request is a 2xx body with an   *)
(* empty features list, the call has returned 0, one warning event ("No    *)
(* elevation data ...") is logged and no error event is.                   *)
(***************************************************************************)
NoElevationDataIsZero ==
  (op = "getElevation" /\ req[1].st = "resolved" /\ req[1].data = Body(<<>>))
  => /\ pc = "returned"
     /\ returned = Num(0)
     /\ Len(EventsAt("warn")) = 1
     /\ EventsAt("warn")[1].msg = "No elevation data for coordinates: "
     /\ EventsAt("error") = <<>>

NoElevationDataIsZeroWitness ==
  /\ op = "getElevation"
  /\ req[1].st = "resolved"
  /\ req[1].data = Body(<<>>)
  /\ returned = Num(0)
  /\ Len(log) = 1

(***************************************************************************)
(* C9: a getOptimizedRoute or getDistanceMatrix call with n >= 2           *)
(* coordinates issues one request whose path is, for k = 1..n, the decimal *)
(* longitude of coordinate k, ",", its decimal latitude, with ";" between  *)
(* consecutive coordinates and nothing else.                               *)
(***************************************************************************)
PathInInputOrder ==
  (op \in {"getOptimizedRoute", "getDistanceMatrix"} /\ IsArray(input)
     /\ Len(input.items) >= 2)
  => LET pts == input.items
         n == Len(pts)
         path == req[1].path
     IN /\ Len(req) = 1
        /\ req[1].endpoint = IF op = "getOptimizedRoute"
                             THEN "/optimized-trips/v1/mapbox/driving/"
                             ELSE "/distances/v1/mapbox/driving/"
        /\ Len(path) = 4 * n - 1
        /\ \A k \in 1..n :
             /\ path[4 * k - 3] = ToString(pts[k][1])
             /\ path[4 * k - 2] = ","
             /\ path[4 * k - 1] = ToString(pts[k][2])
             /\ k < n => path[4 * k] = ";"

PathInInputOrderWitness ==
  /\ op = "getDistanceMatrix"
  /\ input.items = <<<<2, 1>>, <<-73, 40>>, <<1, 2>>>>
  /\ req[1].path = <<"2", ",", "1", ";", "-73", ",", "40", ";", "1", ",", "2">>

(***************************************************************************)
(* C10: a constructor step with an undefined or empty token throws         *)
(* "Mapbox access token is required" and changes neither the number of     *)
(* retry policies installed on the shared transport nor the stored token;  *)
(* a constructor step with a non-empty token returns, stores the token and *)
(* installs the retry policy once.                                         *)
(***************************************************************************)
CredentialCheckedFirst ==
  [][op' = "constructor"
       => IF Falsy(input')
          THEN /\ pc' = "thrown"
               /\ thrown' = "Mapbox access token is required"
               /\ installs' = installs
               /\ accessToken' = accessToken
          ELSE /\ pc' = "returned"
               /\ thrown' = ""
               /\ installs' = installs + 1
               /\ accessToken' = input']_vars

CredentialCheckedFirstWitness ==
  /\ op = "constructor"
  /\ input = [t |-> "string", s |-> ""]
  /\ pc = "thrown"
  /\ installs = 1
  /\ accessToken # Undefined

(***************************************************************************)
(* C11: whenever a call has thrown after issuing requests, the message of  *)
(* the thrown error is the fixed message of its method, whichever failure  *)
(* caused it; the status and the message of that failure are in the one    *)
(* error event of the log, and the failure is one of the call's own (the   *)
(* rejection of one of its requests, or the TypeError of reading a body    *)
(* without features).                                                      *)
(***************************************************************************)
\* the failures the call has met so far
Causes ==
  {req[i].err : i \in {j \in DOMAIN req : req[j].st = "rejected"}}
    \cup {TypeError : i \in {j \in DOMAIN req : req[j].st = "resolved"
                                                 /\ req[j].data = NoFeaturesBody}}

ThrownErrorIsNarrow ==
  (op \in Methods /\ pc = "thrown" /\ req # <<>>)
  => /\ thrown = FailureMessage(op)
     /\ Len(EventsAt("error")) = 1
     /\ \E cause \in Causes :
          /\ EventsAt("error")[1].arg = <<cause.message>>
          /\ EventsAt("error")[1].meta.status = cause.status

ThrownErrorIsNarrowWitness ==
  /\ op = "getDistanceMatrix"
  /\ pc = "thrown"
  /\ req # <<>>
  /\ req[1].err = StatusError(500)
  /\ thrown = "Failed to fetch distance matrix"
  /\ EventsAt("error")[1].meta.status = {500}

(***************************************************************************)
(* C12, as stated: once any request of a batchGeocode call has been        *)
(* answered, all N requests of the call have been issued, and the call has *)
(* neither returned nor thrown while one of its N requests is still on the *)
(* wire or waiting for a retry.                                            *)
(***************************************************************************)
Completed(i) == req[i].st \in {"resolved", "rejected"}

BatchWaitsForAll ==
  (op = "batchGeocode" /\ req # <<>>)
  => /\ Len(req) = Len(input.items)
     /\ \A i \in DOMAIN req : req[i].attempts >= 1
     /\ pc \in {"returned", "thrown"} => \A i \in DOMAIN req : Completed(i)

(***************************************************************************)
(* C12, amended: all N requests of a batchGeocode call are issued before   *)
(* any is answered; the call returns exactly when all N have resolved, and *)
(* it throws as soon as one of them is rejected, whatever the state of the *)
(* others.                                                                 *)
(***************************************************************************)
BatchJoin ==
  (op = "batchGeocode" /\ req # <<>>)
  => /\ Len(req) = Len(input.items)
     /\ \A i \in DOMAIN req : req[i].attempts >= 1
     /\ pc = "returned" <=> AllResolved(req)
     /\ pc = "thrown" <=> \E i \in DOMAIN req : req[i].st = "rejected"
     /\ pc \in {"pending", "returned", "thrown"}

BatchJoinWitness ==
  /\ op = "batchGeocode"
  /\ Len(req) = 2
  /\ pc = "thrown"
  /\ req[1].st = "rejected"
  /\ req[2].st = "inflight"
  /\ req[2].retryCount = 0

(***************************************************************************)
(* C13: a call that passed validation has, when it has returned, a success *)
(* event (info, or the warning of the default elevation) in its log, and   *)
(* when it has thrown after issuing requests, an error event in its log.   *)
(***************************************************************************)
OutcomeLogged ==
  (op \in Methods /\ req # <<>>)
  => /\ pc = "returned" => Len(EventsAt("info")) + Len(EventsAt("warn")) >= 1
     /\ pc = "thrown" => Len(EventsAt("error")) >= 1

(***************************************************************************)
(* C14: every error event logged after an upstream failure carries a       *)
(* bounded summary of the input, that is the number of elements of the     *)
(* input sequence or the single coordinate of getElevation, and never the  *)
(* input sequence itself; its status is the upstream status when there is  *)
(* one.                                                                    *)
(***************************************************************************)
CountKeys == {"waypointCount", "locationCount", "pointCount"}

BoundedSummary(meta) ==
  IF op = "getElevation"
  THEN /\ meta.key = "coordinates"
       /\ meta.val = <<ToString(input.items[1]), ", ", ToString(input.items[2])>>
  ELSE meta.key \in CountKeys /\ meta.val = Len(input.items)

ErrorEventSummarises ==
  (op \in Methods /\ req # <<>>)
  => \A k \in DOMAIN log :
       log[k].level = "error"
       => /\ BoundedSummary(log[k].meta)
          /\ \E cause \in Causes : log[k].meta.status = cause.status

(***************************************************************************)
(* C15: however many gateways have been constructed, every request is      *)
(* retried at most 3 times, is given up while its failure is retryable     *)
(* only after its third retry, and has logged exactly one retry event per  *)
(* retry, numbered 1, 2, 3.                                                *)
(***************************************************************************)
RetryEvents(n) == [k \in 1..n |-> k]

RetryPolicyIdempotent ==
  \A i \in DOMAIN req :
    /\ installs \in 1..MaxCtor
    /\ req[i].retryCount <= Retries
    /\ retryLog[i] = RetryEvents(req[i].retryCount)
    /\ req[i].attempts = IF req[i].st = "backoff"
                         THEN req[i].retryCount
                         ELSE req[i].retryCount + 1
    /\ (req[i].st = "rejected" /\ RetryCondition(req[i].err))
       => req[i].retryCount = Retries

RetryPolicyIdempotentWitness ==
  /\ installs = 2
  /\ op = "getElevation"
  /\ req # <<>>
  /\ req[1].st = "rejected"
  /\ req[1].err = StatusError(429)
  /\ req[1].attempts = 4
  /\ retryLog[1] = <<1, 2, 3>>

(***************************************************************************)
(* C16: a step on one request of a call (an answer of the transport or a   *)
(* retry timer) leaves the retry count, the attempts and the retry events  *)
(* of every other request of the call as they were; it adds at most one    *)
(* retry to the request itself, and it gives the request up only when the  *)
(* request's own count and failure allow no retry.                         *)
(***************************************************************************)
SameCall == op' = op /\ op \in Methods /\ DOMAIN req' = DOMAIN req

RetryStateLocal ==
  [][\A i \in DOMAIN req :
       (SameCall /\ req'[i] # req[i])
       => /\ \A j \in DOMAIN req \ {i} :
               req'[j] = req[j] /\ retryLog'[j] = retryLog[j]
          /\ req'[i].retryCount \in {req[i].retryCount, req[i].retryCount + 1}
          /\ (req[i].st = "inflight" /\ req'[i].st = "rejected")
             => ~ShouldRetry(req[i].retryCount, req'[i].err)]_vars

RetryStateLocalWitness ==
  /\ op = "batchGeocode"
  /\ Len(req) = 2
  /\ req[1].st = "rejected"
  /\ req[1].retryCount = Retries
  /\ req[2].st = "resolved"
  /\ req[2].retryCount = 1
  /\ retryLog = << <<1, 2, 3>>, <<1>> >>

(***************************************************************************)
(* C17, as stated: a failed attempt is retried exactly when the request    *)
(* has used fewer than 3 retries and the failure has no response or has    *)
(* status 429.                                                             *)
(***************************************************************************)
Retried(i) == req'[i].st = "backoff" /\ req'[i].retryCount = req[i].retryCount + 1

RetriedOnNetworkOr429Only ==
  [][\A i \in DOMAIN req : \A error \in AllFailures :
       TransportFailure(i, error)
       => (Retried(i) <=> /\ req[i].retryCount < 3
                          /\ error.status = {} \/ error.status = {429})]_vars

(***************************************************************************)
(* C17, amended: a failed attempt is retried exactly when the request has  *)
(* used fewer than 3 retries and the failure is a network-level error      *)
(* other than an aborted or timed-out request (no response, code not       *)
(* ECONNABORTED), or a response with status 429 or with a 5xx status; a    *)
(* failure with any other status is rejected at once.                      *)
(***************************************************************************)
RetryableFailure(error) ==
  \/ error.status = {} /\ error.code # "ECONNABORTED"
  \/ error.status = {429}
  \/ \E s \in error.status : s \in 500..599

RetriedWhenRetryable ==
  [][\A i \in DOMAIN req : \A error \in AllFailures :
       TransportFailure(i, error)
       => /\ Retried(i) <=> (req[i].retryCount < 3 /\ RetryableFailure(error))
          /\ ~Retried(i) => req'[i].st = "rejected" /\ req'[i].err = error]_vars

RetriedWhenRetryableWitness ==
  /\ op = "getOptimizedRoute"
  /\ req # <<>>
  /\ req[1].st = "rejected"
  /\ req[1].err = AbortedError
  /\ req[1].retryCount = 2
  /\ retryLog[1] = <<1, 2>>

(***************************************************************************)
(* C18: a getElevation call that has returned has returned a number: the   *)
(* elevation of the first feature of the response when that feature has    *)
(* one, and 0 when the response has no features or its first feature has   *)
(* no elevation.                                                           *)
(***************************************************************************)
ElevationOf(data) ==
  IF Len(data.features) > 0 /\ data.features[1].ele # {}
  THEN Num(CHOOSE e \in data.features[1].ele : TRUE)
  ELSE Num(0)

ElevationIsANumber ==
  (op = "getElevation" /\ pc = "returned")
  => /\ returned.t = "number"
     /\ returned = ElevationOf(req[1].data)

(***************************************************************************)
(* C19: a call that passed validation is pending, has returned, or has     *)
(* thrown the fixed error of its method, and nothing else: a thrown call   *)
(* has no return value and the message of its method, a returned call has  *)
(* no error, and a 2xx response without a features list, read by           *)
(* getElevation or by a location of batchGeocode, ends the call with the   *)
(* error of the method too.                                                *)
(***************************************************************************)
Malformed(i) ==
  \/ op = "getElevation" /\ req[i].st = "resolved" /\ req[i].data = NoFeaturesBody
  \/ op = "batchGeocode" /\ req[i].st = "rejected" /\ req[i].err = TypeError

Terminates == (pc = "pending") ~> (pc \in {"returned", "thrown"})

TerminatesWitness ==
  /\ op = "batchGeocode"
  /\ Len(req) = MaxLocs
  /\ pc = "thrown"
  /\ \A i \in DOMAIN req :
       /\ req[i].st = "rejected"
       /\ req[i].attempts = Retries + 1
       /\ req[i].err \in Failures

====
